---- MODULE Spec2Model ----
(***************************************************************************)
(* Fetch-and-normalize pipeline of the Rick and Morty API clients:         *)
(* the retry policies (RickAndMortyClient._get, retry_with_backoff around  *)
(* RESTClient._make_request, GraphQLClient._execute_query), the paginated  *)
(* fetch-all loops, fetch_character_with_location and the combined-page    *)
(* fetch fetch_all_data_ultra_optimized of the GraphQL clients, close()    *)
(* and the command entry points that construct a client, use it and leave. *)
(* The data layer (record parsers, ID extraction, statistics, the CSV      *)
(* projection) is a second specification, DataSpec, over the same client.  *)
(*                                                                         *)
(* One client runs one operation at a time.  The upstream answers every    *)
(* network attempt with an outcome the model draws nondeterministically.   *)
(***************************************************************************)
EXTENDS Integers, Sequences, FiniteSets, TLC

VARIABLES
    impl,        \* which client implementation was constructed
    jsonErrIsRequestException,
                 \* installed requests: JSONDecodeError is a RequestException
    phase,       \* "ready", "attempt", "sleeping", "returned", "raised", "exited";
                 \* "loop": a pass of the combined-page loop that sends nothing
    op,          \* "none", "fetch_all", "char_loc", "call", "ultra"
    resource,    \* "characters" / "locations" / "none"
    sizes,       \* upstream of the running fetch-all: results length of each page
    page,        \* page number of the request in progress (0: not a page request)
    requested,   \* page numbers handed to the page fetcher so far, in order
    acc,         \* all_items / all_characters: parsed records accumulated so far
    attempt,     \* loop variable `attempt` of the retry policy (0-based)
    calls,       \* network calls made for the request in progress
    last,        \* outcome of the latest network call of the request in progress
    seen,        \* what the calls of the request in progress met so far:
                 \* "none", "s429" (429 each time), "retryable" (429, timeout
                 \* or connection error each time), "other"
    sleepFor,    \* argument of the time.sleep in progress
    stage,       \* fetch_character_with_location: "char", "loc" or "none";
                 \* fetch_all_data_ultra_optimized: the request of the pass,
                 \* "first", "combined", "fb_char", "fb_loc", "char_only", or
                 \* "skip" for a pass that takes no branch
    result,      \* value returned by the operation
    err,         \* error that left the operation
    char_pages,  \* character page count the upstream reports to the first query
    loc_pages,   \* location page count the upstream reports to the first query
    idx,         \* loop variable `i` of fetch_all_data_ultra_optimized
    queries_made,
                 \* its counter of the same name
    sent,        \* requests it has sent to the upstream
    failed,      \* how many of them failed, or returned a result that could
                 \* not be handled
    unparsed,    \* how many of them returned a record the parser raised on
    all_characters,
                 \* character pages whose records were appended to the list
    all_locations,
                 \* location pages whose records were appended to the list
    closeCalls,  \* calls of close() on the client so far
    cmd,         \* the command that owns the client: "none" (the client is
                 \* used as a library), "fetch", "export", "exit0", "exit1"
    fn,          \* data layer: the function applied last ("none": none yet)
    arg,         \* its argument
    out          \* what it returned, or the exception it raised

dataVars == <<fn, arg, out>>

ultraVars == <<char_pages, loc_pages, idx, queries_made, sent, failed,
               unparsed, all_characters, all_locations>>

vars == <<impl, jsonErrIsRequestException, phase, op, resource, sizes, page,
          requested, acc, attempt, calls, last, seen, sleepFor, stage, result,
          err, char_pages, loc_pages, idx, queries_made, sent, failed,
          unparsed, all_characters, all_locations, closeCalls, cmd, fn, arg, out>>

----------------------------------------------------------------------------
(* Bounds of the model *)

MaxPages == 3
MaxPageSize == 2
MaxRetryAfter == 3
MaxCalls == 6
MaxCloses == 1
MaxUnparsed == 1

(* Program constants *)

MAX_RETRIES == 3
RETRY_DELAY == 1
RETRY_BACKOFF == 2
GetMaxRetries == 3
GetBackoffBase == 2
DefaultCharPages == 42
DefaultLocPages == 7
OriginalCalls == 49

----------------------------------------------------------------------------
(* Values *)

Impls == {"main", "rest_v1", "rest_v2", "gql_v1", "gql_v2", "util"}
RestImpls == {"rest_v1", "rest_v2"}
GqlImpls == {"gql_v1", "gql_v2"}
BaseImpls == {"rest_v2", "gql_v2"}
\* the clients that define fetch_character_with_location
Facades == RestImpls \cup GqlImpls
Resources == {"characters", "locations"}

\* An optional value is the empty sequence (None) or a one-element sequence.
None == <<>>
Some(x) == <<x>>

RECURSIVE Pow(_, _)
Pow(b, e) == IF e = 0 THEN 1 ELSE b * Pow(b, e - 1)

RECURSIVE SumTo(_, _)
SumTo(s, k) == IF k = 0 THEN 0 ELSE s[k] + SumTo(s, k - 1)

\* What one network call can meet.  `ra` is the retry-after header of a 429.
Kinds == {"ok", "null", "s404", "s429", "s500", "timeout", "conn", "malformed"}
Outcome(k, ra) == [kind |-> k, ra |-> ra]
NoOutcome == Outcome("none", None)
Outcomes ==
    {Outcome(k, None) : k \in Kinds}
        \cup {Outcome("s429", Some(n)) : n \in 0..MaxRetryAfter}

StatusOf(o) ==
    CASE o.kind = "s404" -> 404
      [] o.kind = "s429" -> 429
      [] o.kind = "s500" -> 500
      [] OTHER -> 200

NoErr == [type |-> "none", status |-> None, resource |-> "none", page |-> 0]
APIError(status, res, pg) ==
    [type |-> "APIError", status |-> status, resource |-> res, page |-> pg]

----------------------------------------------------------------------------
(* The upstream: page k of a resource with page sizes s.  Record ids run    *)
(* 1, 2, ... across the pages, so the id of a record tells its position.    *)

TotalPages(s) == Len(s)

UpstreamResults(s, k) ==
    IF k \in 1..Len(s)
    THEN [i \in 1..s[k] |-> [id |-> SumTo(s, k - 1) + i]]
    ELSE <<>>

\* info.next of page k: a cursor while a further page exists, else null
UpstreamNext(s, k) == IF k < Len(s) THEN Some(k + 1) ELSE None

\* Character.from_dict / Location.from_dict keep the record's id
FromDict(data) == [id |-> data.id]

ParsePage(s, k) ==
    [i \in 1..Len(UpstreamResults(s, k)) |-> FromDict(UpstreamResults(s, k)[i])]

----------------------------------------------------------------------------
(* Retry policies.  A decision says what the policy does after one network  *)
(* call that met outcome o on attempt a: hand the data back, sleep and try   *)
(* again, let an exception leave, or end the process.                        *)

Return == [act |-> "return", wait |-> 0, err |-> NoErr]
SleepThenRetry(w) == [act |-> "sleep", wait |-> w, err |-> NoErr]
Raise(e) == [act |-> "raise", wait |-> 0, err |-> e]
Exit == [act |-> "exit", wait |-> 0,
         err |-> [type |-> "SystemExit", status |-> None,
                  resource |-> "none", page |-> 0]]

Exc(type, status) ==
    [type |-> type, status |-> status, resource |-> "none", page |-> 0]

\* except requests.exceptions.RequestException of RickAndMortyClient._get
GetOnRequestException(a) ==
    IF a < GetMaxRetries
    THEN SleepThenRetry(Pow(GetBackoffBase, a))
    ELSE Exit

\* RickAndMortyClient._get, one pass of its loop
GetDecision(o, a, jsonIsReqExc) ==
    IF o.kind \in {"timeout", "conn"}
    THEN GetOnRequestException(a)                      \* session.get raised
    ELSE IF StatusOf(o) = 429 /\ a < GetMaxRetries
    THEN SleepThenRetry(IF o.ra # None THEN o.ra[1]
                        ELSE Pow(GetBackoffBase, a))
    ELSE IF StatusOf(o) >= 400
    THEN GetOnRequestException(a)                      \* raise_for_status
    ELSE IF o.kind = "malformed"                       \* response.json() raised
    THEN IF jsonIsReqExc THEN GetOnRequestException(a)
         ELSE Raise(Exc("ValueError", None))
    ELSE Return

\* handle_api_error
HandleApiError(status) ==
    IF status = 404 THEN Exc("APIError", Some(404))
    ELSE IF status = 429 THEN Exc("APIError", Some(429))
    ELSE IF status >= 500 THEN Exc("APIError", Some(status))
    ELSE IF status >= 400 THEN Exc("APIError", Some(status))
    ELSE NoErr

\* RESTClient._make_request: the data, or the exception that leaves it
MakeRequest(o) ==
    CASE o.kind = "timeout" -> Exc("APIError", Some(408))
      [] o.kind = "conn" -> Exc("APIError", None)
      [] StatusOf(o) # 200 -> HandleApiError(StatusOf(o))
      [] o.kind = "malformed" -> Exc("APIError", None)
      [] OTHER -> NoErr

\* a function that lets the requests exceptions through, as the default
\* `exceptions` of retry_with_backoff expects
RawCall(o) ==
    CASE o.kind = "timeout" -> Exc("Timeout", None)
      [] o.kind = "conn" -> Exc("ConnectionError", None)
      [] StatusOf(o) >= 400 -> Exc("HTTPError", Some(StatusOf(o)))
      [] o.kind = "malformed" ->
            Exc(IF jsonErrIsRequestException THEN "RequestException"
                ELSE "ValueError", None)
      [] OTHER -> NoErr

\* the default `exceptions` tuple: RequestException and its subclasses
RetryExceptions == {"RequestException", "Timeout", "ConnectionError", "HTTPError"}

\* retry_with_backoff, one pass of its loop around a call that raised e
\* (NoErr: the call returned)
RetryWithBackoff(e, a) ==
    IF e = NoErr THEN Return
    ELSE IF e.type \in RetryExceptions
         THEN IF a < MAX_RETRIES - 1
              THEN SleepThenRetry(RETRY_DELAY * Pow(RETRY_BACKOFF, a))
              ELSE Raise(e)
         ELSE Raise(e)

\* GraphQLClient._execute_query: every exception becomes an APIError
ExecuteQuery(o) ==
    IF o.kind \in {"ok", "null"} THEN Return
    ELSE Raise(Exc("APIError", None))

Policy(o, a) ==
    CASE impl = "main" -> GetDecision(o, a, jsonErrIsRequestException)
      [] impl \in RestImpls -> RetryWithBackoff(MakeRequest(o), a)
      [] impl = "util" -> RetryWithBackoff(RawCall(o), a)
      [] OTHER -> ExecuteQuery(o)

\* outcomes the transport of this client can meet for the request in progress
OutcomesFor ==
    IF impl \in GqlImpls /\ op = "char_loc"
    THEN Outcomes
    ELSE {o \in Outcomes : o.kind # "null"}

----------------------------------------------------------------------------
(* The paginated fetch-all loops *)

\* a loop that stops one page early
MorePagesStopsEarly(k) == k + 1 < TotalPages(sizes)

\* a loop that compares with <= and asks for one page too many
MorePagesOneTooMany(k) == k <= TotalPages(sizes)

\* whether the loop asks for a further page after page k
MorePages(k) ==
    CASE impl = "main" -> UpstreamNext(sizes, k) # None
      [] impl \in BaseImpls ->
            IF k = 1 THEN TotalPages(sizes) > 1 ELSE k + 1 < TotalPages(sizes) + 1
      [] OTHER -> k < TotalPages(sizes)

\* ProgressTracker.update divides by its total; the first-generation clients
\* build the tracker with total_pages and update it after page 1
ProgressCrash(k) ==
    impl \in {"rest_v1", "gql_v1"} /\ k = 1 /\ TotalPages(sizes) = 0

\* the error that leaves the fetch-all when the request for page k let e out
FetchAllError(e, k) ==
    IF impl \in BaseImpls /\ k >= 2 /\ e.type # "SystemExit"
    THEN APIError(None, resource, k)
    ELSE e

----------------------------------------------------------------------------
(* fetch_character_with_location / get_character_details *)

Populated == "populated"
CharLocResult(loc) == [character |-> Populated, location |-> loc]

\* clients whose location comes from a second lookup
SecondLookup == impl # "gql_v1"

\* an outer handler that reports every failure of the lookup alike
CharLookupErrorGeneric(e, nf) == Exc("APIError", None)

\* the error that leaves the operation when the character lookup let e out;
\* nf: the text of e contains "not found"
CharLookupError(e, nf) ==
    CASE impl = "rest_v2" ->
            IF e.type = "APIError" /\ e.status = Some(404)
            THEN Exc("APIError", Some(404)) ELSE e
      [] impl = "gql_v2" ->
            IF nf THEN Exc("APIError", Some(404)) ELSE Exc("APIError", None)
      [] OTHER -> e

\* a location lookup without the try/except around it
LocLookupNotTolerated(e) == FALSE

\* whether the except around the location lookup absorbs e
LocLookupTolerated(e) ==
    impl \in {"rest_v1", "rest_v2", "gql_v2"} /\ e.type = "APIError"

----------------------------------------------------------------------------
(* fetch_all_data_ultra_optimized *)

\* page counts the upstream can report: the small datasets and the full one
PageCounts ==
    ((0..MaxPages) \X (0..MaxPages))
        \cup {<<DefaultCharPages, DefaultLocPages>>}

\* remaining_pages[i] exists: i < len(range(2, pages + 1))
HasPage(i, pages) == i < (IF pages >= 1 THEN pages - 1 ELSE 0)

\* the condition of the while loop
LoopContinues(i) == HasPage(i, char_pages) \/ HasPage(i, loc_pages)

\* the branch pass i of the loop takes: `if char_page and loc_page`,
\* `elif char_page`, and no branch otherwise
StageAt(i) ==
    IF HasPage(i, char_pages) /\ HasPage(i, loc_pages) THEN "combined"
    ELSE IF HasPage(i, char_pages) THEN "char_only"
    ELSE "skip"

\* a counter that adds one per resource of the request
QueriesCountedPerResource(q) == q + 2

\* queries_made += 1
QueriesAfter(q) == q + 1

\* a quotient n / d, kept exact
Ratio(n, d) == [num |-> n, den |-> d]
RatioEq(a, b) == a.num * b.den = b.num * a.den

\* (49 - queries_made) / 49 * 100
OptimizationPercentage(q) == Ratio((OriginalCalls - q) * 100, OriginalCalls)

UltraResult(q, ac, al) ==
    [characters |-> ac, locations |-> al, api_calls |-> q,
     optimization_percentage |-> OptimizationPercentage(q)]

----------------------------------------------------------------------------
(* Actions *)

Idle == phase = "ready"

Setup(o, r, s, st) ==
    /\ op' = o
    /\ resource' = r
    /\ sizes' = s
    /\ stage' = st
    /\ page' = IF o = "fetch_all" THEN 1 ELSE 0
    /\ requested' = IF o = "fetch_all" THEN <<1>> ELSE <<>>
    /\ acc' = <<>>
    /\ attempt' = 0
    /\ calls' = 0
    /\ last' = NoOutcome
    /\ seen' = "none"
    /\ sleepFor' = 0
    /\ result' = None
    /\ err' = NoErr
    /\ phase' = "attempt"
    /\ UNCHANGED dataVars
    /\ UNCHANGED <<impl, jsonErrIsRequestException, idx, queries_made, sent,
                   failed, unparsed, all_characters, all_locations>>

\* a caller that holds the client starts an operation on it
Begin(o, r, s, st) ==
    /\ Idle
    /\ cmd = "none"
    /\ Setup(o, r, s, st)
    /\ UNCHANGED <<closeCalls, cmd>>

\* fetch_all_characters / fetch_all_locations is called
StartFetchAll ==
    /\ impl # "util"
    /\ \E r \in Resources, P \in 0..MaxPages :
          \E s \in [1..P -> 1..MaxPageSize] : Begin("fetch_all", r, s, "none")
    /\ UNCHANGED <<char_pages, loc_pages>>

\* fetch_character_with_location / get_character_details is called
StartCharLoc ==
    /\ impl # "util"
    /\ Begin("char_loc", "none", <<>>, "char")
    /\ UNCHANGED <<char_pages, loc_pages>>

\* one request is made through the retry policy
StartCall ==
    /\ Begin("call", "none", <<>>, "none")
    /\ UNCHANGED <<char_pages, loc_pages>>

\* fetch_all_data_ultra_optimized is called
StartUltra ==
    /\ impl \in GqlImpls
    /\ \E pp \in PageCounts :
          /\ char_pages' = pp[1]
          /\ loc_pages' = pp[2]
    /\ Begin("ultra", "none", <<>>, "first")

\* the class of the outcomes met so far, once one more call met kind k
Seen(h, k) ==
    LET c == IF k = "s429" THEN "s429"
             ELSE IF k \in {"timeout", "conn"} THEN "retryable"
             ELSE "other"
    IN  IF h = "none" \/ h = c THEN c
        ELSE IF h = "other" \/ c = "other" THEN "other"
        ELSE "retryable"

\* bookkeeping of one network call that met outcome o; the counter stops
\* at MaxCalls, beyond what any of the retry policies reaches
Made(o) ==
    /\ calls' = IF calls < MaxCalls THEN calls + 1 ELSE calls
    /\ last' = o
    /\ seen' = Seen(seen, o.kind)

Finish(ph, res, e) ==
    /\ phase' = ph
    /\ result' = res
    /\ err' = e
    /\ attempt' = attempt
    /\ sleepFor' = 0
    /\ UNCHANGED <<page, requested, stage>>

NextRequest(pg, req, st) ==
    /\ phase' = "attempt"
    /\ page' = pg
    /\ requested' = req
    /\ stage' = st
    /\ attempt' = 0
    /\ calls' = 0
    /\ last' = NoOutcome
    /\ seen' = "none"
    /\ sleepFor' = 0
    /\ UNCHANGED <<result, err>>

Leave(e) ==
    Finish(IF e.type = "SystemExit" THEN "exited" ELSE "raised", None, e)

\* the loop goes to pass j with counter q and ac, al pages in the lists; o is
\* the outcome of the request just made (NoOutcome: none was made)
UltraGoOn(j, q, ac, al, o) ==
    /\ idx' = j
    /\ queries_made' = q
    /\ all_characters' = ac
    /\ all_locations' = al
    /\ IF LoopContinues(j)
       THEN /\ phase' = IF StageAt(j) = "skip" THEN "loop" ELSE "attempt"
            /\ stage' = StageAt(j)
            /\ attempt' = 0
            /\ calls' = 0
            /\ last' = NoOutcome
            /\ seen' = "none"
            /\ sleepFor' = 0
            /\ UNCHANGED <<page, requested, result, err>>
       ELSE /\ phase' = "returned"
            /\ result' = Some(UltraResult(q, ac, al))
            /\ IF o = NoOutcome
               THEN UNCHANGED <<calls, last, seen>>
               ELSE Made(o)
            /\ UNCHANGED <<page, requested, stage, attempt, sleepFor, err>>

\* the next request of the same pass
UltraSamePass(st, q, ac, al) ==
    /\ idx' = idx
    /\ queries_made' = q
    /\ all_characters' = ac
    /\ all_locations' = al
    /\ phase' = "attempt"
    /\ stage' = st
    /\ attempt' = 0
    /\ calls' = 0
    /\ last' = NoOutcome
    /\ seen' = "none"
    /\ sleepFor' = 0
    /\ UNCHANGED <<page, requested, result, err>>

\* _execute_query returned the data of the request of this pass
UltraReturns(o) ==
    /\ sent' = sent + 1
    /\ UNCHANGED <<char_pages, loc_pages, failed, unparsed, acc>>
    /\ CASE stage = "first" ->
              UltraGoOn(0, 1, IF char_pages >= 1 THEN 1 ELSE 0,
                        IF loc_pages >= 1 THEN 1 ELSE 0, o)
         [] stage = "combined" ->
              UltraGoOn(idx + 1, QueriesAfter(queries_made),
                        all_characters + 1, all_locations + 1, o)
         [] stage = "fb_char" ->
              UltraSamePass("fb_loc", QueriesAfter(queries_made),
                            all_characters + 1, all_locations)
         [] stage = "fb_loc" ->
              UltraGoOn(idx + 1, QueriesAfter(queries_made),
                        all_characters, all_locations + 1, o)
         [] OTHER ->
              UltraGoOn(idx + 1, QueriesAfter(queries_made),
                        all_characters + 1, all_locations, o)

\* _execute_query raised e for the request of this pass
UltraFails(o, e) ==
    /\ sent' = sent + 1
    /\ failed' = failed + 1
    /\ UNCHANGED <<char_pages, loc_pages, unparsed, acc>>
    /\ CASE stage = "combined" ->
              UltraSamePass("fb_char", queries_made, all_characters,
                            all_locations)
         [] stage = "char_only" ->
              \* `except Exception as e: logger.error(...)`: the loop goes on
              UltraGoOn(idx + 1, queries_made, all_characters,
                        all_locations, o)
         [] OTHER ->
              /\ Leave(e)
              /\ Made(o)
              /\ UNCHANGED <<idx, queries_made, all_characters, all_locations>>

\* the exception of a parser on a record it cannot handle (a null origin)
ParseError == Exc("AttributeError", None)

\* _execute_query returned the data of the request of this pass, and a
\* record in it makes the parser raise.  In the result of a combined request
\* it is a location record: the characters of the page are in the list by
\* then.  (A page appended in part is not counted in the lists.)
UltraUnparsed(o) ==
    /\ unparsed < MaxUnparsed
    /\ unparsed' = unparsed + 1
    /\ sent' = sent + 1
    /\ failed' = failed + 1
    /\ UNCHANGED <<char_pages, loc_pages, acc>>
    /\ CASE stage = "combined" ->
              UltraSamePass("fb_char", QueriesAfter(queries_made),
                            all_characters + 1, all_locations)
         [] stage = "char_only" ->
              \* `except Exception as e: logger.error(...)`: the loop goes on
              UltraGoOn(idx + 1, QueriesAfter(queries_made), all_characters,
                        all_locations, o)
         [] OTHER ->
              /\ Leave(ParseError)
              /\ Made(o)
              /\ queries_made' = IF stage = "first" THEN queries_made
                                 ELSE QueriesAfter(queries_made)
              /\ UNCHANGED <<idx, all_characters, all_locations>>

\* the network call succeeds and the operation goes on with the data
CallReturns ==
    /\ phase = "attempt"
    /\ UNCHANGED <<closeCalls, cmd>>
    /\ \E o \in OutcomesFor :
        /\ Policy(o, attempt).act = "return"
        /\ UNCHANGED dataVars
        /\ UNCHANGED <<impl, jsonErrIsRequestException, op, resource, sizes>>
        /\ IF op = "ultra" THEN UltraReturns(o) \/ UltraUnparsed(o) ELSE
           /\ UNCHANGED ultraVars
           /\ CASE op = "fetch_all" ->
                  /\ acc' = acc \o ParsePage(sizes, page)
                  /\ IF ProgressCrash(page)
                     THEN /\ Leave(Exc("ZeroDivisionError", None))
                          /\ Made(o)
                     ELSE IF MorePages(page)
                     THEN NextRequest(page + 1, Append(requested, page + 1), stage)
                     ELSE /\ Finish("returned", Some(acc'), NoErr)
                          /\ Made(o)
             [] op = "char_loc" /\ stage = "char" /\ o.kind = "null" ->
                  \* `if not char_data: raise APIError(..., status_code=404)`,
                  \* raised inside the try of the second-generation client
                  /\ Leave(CharLookupError(Exc("APIError", Some(404)), TRUE))
                  /\ Made(o) /\ acc' = acc
             [] op = "char_loc" /\ stage = "char" /\ o.kind # "null" ->
                  /\ acc' = acc
                  /\ \E hasLoc \in BOOLEAN :
                        IF hasLoc /\ SecondLookup
                        THEN NextRequest(page, requested, "loc")
                        ELSE /\ Finish("returned",
                                       Some(CharLocResult(IF hasLoc THEN Populated
                                                          ELSE "None")), NoErr)
                             /\ Made(o)
             [] op = "char_loc" /\ stage = "loc" ->
                  /\ Finish("returned",
                            Some(CharLocResult(IF o.kind = "null" THEN "None"
                                               ELSE Populated)), NoErr)
                  /\ Made(o) /\ acc' = acc
             [] OTHER ->
                  /\ Finish("returned", Some("data"), NoErr)
                  /\ Made(o) /\ acc' = acc

\* the network call fails and the retry policy goes to sleep before a retry
CallRetries ==
    /\ phase = "attempt"
    /\ UNCHANGED <<closeCalls, cmd>>
    /\ \E o \in OutcomesFor :
        /\ Policy(o, attempt).act = "sleep"
        /\ phase' = "sleeping"
        /\ sleepFor' = Policy(o, attempt).wait
        /\ Made(o)
        /\ UNCHANGED dataVars
        /\ UNCHANGED <<impl, jsonErrIsRequestException, op, resource, sizes, page,
                       requested, acc, attempt, stage, result, err>>
        /\ UNCHANGED ultraVars

\* a retry loop that never counts its attempts
WakeWithoutCounting ==
    /\ phase = "sleeping"
    /\ phase' = "attempt"
    /\ UNCHANGED <<closeCalls, cmd>>
    /\ UNCHANGED dataVars
    /\ UNCHANGED <<impl, jsonErrIsRequestException, op, resource, sizes, page,
                   requested, acc, attempt, calls, last, seen, sleepFor, stage,
                   result, err>>
    /\ UNCHANGED ultraVars

\* time.sleep returns and the retry loop makes its next pass
Wake ==
    /\ phase = "sleeping"
    /\ phase' = "attempt"
    /\ UNCHANGED <<closeCalls, cmd>>
    /\ attempt' = attempt + 1
    /\ sleepFor' = 0
    /\ last' = NoOutcome
    /\ UNCHANGED dataVars
    /\ UNCHANGED <<impl, jsonErrIsRequestException, op, resource, sizes, page,
                   requested, acc, calls, seen, stage, result, err>>
    /\ UNCHANGED ultraVars

\* the network call fails and the retry policy gives up
CallFails ==
    /\ phase = "attempt"
    /\ UNCHANGED <<closeCalls, cmd>>
    /\ \E o \in OutcomesFor :
        /\ Policy(o, attempt).act \in {"raise", "exit"}
        /\ UNCHANGED dataVars
        /\ UNCHANGED <<impl, jsonErrIsRequestException, op, resource, sizes>>
        /\ LET e == Policy(o, attempt).err IN
           IF op = "ultra" THEN UltraFails(o, e) ELSE
           /\ Made(o)
           /\ acc' = acc
           /\ UNCHANGED ultraVars
           /\ CASE op = "fetch_all" -> Leave(FetchAllError(e, page))
             [] op = "char_loc" /\ stage = "char" ->
                  \E nf \in IF impl = "gql_v2" THEN BOOLEAN ELSE {FALSE} :
                      Leave(CharLookupError(e, nf))
             [] op = "char_loc" /\ stage = "loc" ->
                  IF LocLookupTolerated(e)
                  THEN Finish("returned", Some(CharLocResult("None")), NoErr)
                  ELSE Leave(e)
             [] OTHER -> Leave(e)

\* a client on which no operation is running
Ready ==
    /\ phase = "ready"
    /\ op = "none"
    /\ resource = "none"
    /\ sizes = <<>>
    /\ page = 0
    /\ requested = <<>>
    /\ acc = <<>>
    /\ attempt = 0
    /\ calls = 0
    /\ last = NoOutcome
    /\ seen = "none"
    /\ sleepFor = 0
    /\ stage = "none"
    /\ result = None
    /\ err = NoErr
    /\ char_pages = 0
    /\ loc_pages = 0
    /\ idx = 0
    /\ queries_made = 0
    /\ sent = 0
    /\ failed = 0
    /\ unparsed = 0
    /\ all_characters = 0
    /\ all_locations = 0

\* the operation is over for its caller: nothing of it stays in the client
ResetOp ==
    /\ phase' = "ready"
    /\ op' = "none"
    /\ resource' = "none"
    /\ sizes' = <<>>
    /\ page' = 0
    /\ requested' = <<>>
    /\ acc' = <<>>
    /\ attempt' = 0
    /\ calls' = 0
    /\ last' = NoOutcome
    /\ seen' = "none"
    /\ sleepFor' = 0
    /\ stage' = "none"
    /\ result' = None
    /\ err' = NoErr
    /\ char_pages' = 0
    /\ loc_pages' = 0
    /\ idx' = 0
    /\ queries_made' = 0
    /\ sent' = 0
    /\ failed' = 0
    /\ unparsed' = 0
    /\ all_characters' = 0
    /\ all_locations' = 0
    /\ UNCHANGED dataVars
    /\ UNCHANGED <<impl, jsonErrIsRequestException>>

\* a pass of the combined-page loop in which only a location page remains:
\* neither branch applies, nothing is sent, `i += 1`
UltraSkip ==
    /\ op = "ultra"
    /\ phase = "loop"
    /\ UltraGoOn(idx + 1, queries_made, all_characters, all_locations,
                 NoOutcome)
    /\ UNCHANGED dataVars
    /\ UNCHANGED <<impl, jsonErrIsRequestException, op, resource, sizes, acc,
                   char_pages, loc_pages, sent, failed, unparsed, closeCalls,
                   cmd>>

\* the caller has its result or its exception; the client, which keeps no
\* state of the operation, is ready for the next one
Handled ==
    /\ phase \in {"returned", "raised"}
    /\ cmd = "none"
    /\ ResetOp
    /\ UNCHANGED <<closeCalls, cmd>>

\* the clients that define close()
Closable == {"rest_v1", "rest_v2", "gql_v2"}

\* close() is called on a client no operation is running on: the REST
\* clients close their session, the GraphQL client logs a line; no client
\* records that it was closed
Close ==
    /\ Idle
    /\ cmd = "none"
    /\ impl \in Closable
    /\ closeCalls < MaxCloses
    /\ closeCalls' = closeCalls + 1
    /\ UNCHANGED dataVars
    /\ UNCHANGED <<impl, jsonErrIsRequestException, phase, op, resource, sizes,
                   page, requested, acc, attempt, calls, last, seen, sleepFor,
                   stage, result, err, cmd>>
    /\ UNCHANGED ultraVars

(* The command entry points: APIWorkflowManager.execute_workflow (with a   *)
(* second-generation client), rest_main.main and graphql_main.main (with   *)
(* the first-generation clients).                                          *)

EntryPoint ==
    IF impl \in BaseImpls THEN "execute_workflow"
    ELSE IF impl = "rest_v1" THEN "rest_main"
    ELSE "graphql_main"

\* the ways a command leaves
ExitPaths ==
    {"single_ok", "fetch_error", "export_ok", "export_raises", "export_invalid"}

\* the value the entry point returns on the path
ExitCode(path) == IF path \in {"single_ok", "export_ok"} THEN 0 ELSE 1

\* calls of close() the entry point makes on the path
ClosesOn(path) ==
    IF EntryPoint = "execute_workflow" THEN 1                        \* finally
    ELSE IF EntryPoint = "rest_main"
    THEN IF path \in {"single_ok", "export_ok"} THEN 1 ELSE 0
    ELSE 0

\* the command returns its exit code
CommandLeaves(path) ==
    /\ cmd' = IF ExitCode(path) = 0 THEN "exit0" ELSE "exit1"
    /\ closeCalls' = closeCalls + ClosesOn(path)
    /\ ResetOp

\* a command is run: it constructs its client and starts its first fetch
\* (--character-id: the character lookup; otherwise all characters)
StartCommand ==
    /\ Idle
    /\ cmd = "none"
    /\ closeCalls = 0
    /\ impl \in Facades
    /\ cmd' = "fetch"
    /\ closeCalls' = 0
    /\ UNCHANGED <<char_pages, loc_pages>>
    /\ \/ Setup("char_loc", "none", <<>>, "char")
       \/ \E P \in 0..MaxPages : \E s \in [1..P -> 1..MaxPageSize] :
             Setup("fetch_all", "characters", s, "none")

\* a fetch of the command returned: after the characters the locations are
\* fetched, after the locations the export begins, and the single-character
\* command prints and leaves
CommandFetched ==
    /\ cmd = "fetch"
    /\ phase = "returned"
    /\ IF op = "char_loc"
       THEN CommandLeaves("single_ok")
       ELSE IF resource = "characters"
       THEN /\ \E P \in 0..MaxPages : \E s \in [1..P -> 1..MaxPageSize] :
                  Setup("fetch_all", "locations", s, "none")
            /\ UNCHANGED <<char_pages, loc_pages, closeCalls, cmd>>
       ELSE /\ cmd' = "export"
            /\ ResetOp
            /\ UNCHANGED closeCalls

\* a fetch of the command raised: the entry point's except returns 1
CommandFetchFailed ==
    /\ cmd = "fetch"
    /\ phase = "raised"
    /\ CommandLeaves("fetch_error")

\* statistics, CSV export and validation: they succeed, raise, or the
\* validation reports invalid files
CommandExports ==
    /\ cmd = "export"
    /\ \E path \in {"export_ok", "export_raises", "export_invalid"} :
          CommandLeaves(path)

----------------------------------------------------------------------------
(* The data layer: the records parsed from the upstream's JSON, ID         *)
(* extraction, statistics and the CSV projection.  A JSON / Python value   *)
(* is Missing (the key is not in the dict), PyNone (null / None) or Py(x). *)
(* A URL is the sequence of the pieces of its text.                        *)

MaxUrlLen == 3

Missing == [k |-> "absent", v |-> <<>>]
PyNone == [k |-> "null", v |-> <<>>]
Py(x) == [k |-> "val", v |-> x]

\* a call that returned x / that raised an exception of type t
Returned(x) == [raised |-> "none", value |-> x]
Raised(t) == [raised |-> t, value |-> PyNone]

\* dict.get(key, default) on the entry x of the key
DictGet(x, default) == IF x.k = "absent" THEN default ELSE x

\* Config.REST_BASE_URL
REST_BASE_URL == "https://rickandmortyapi.com/api"

DigitTokens == <<"0", "1", "2", "3", "4", "5", "6", "7", "8", "9">>
IsDigit(t) == \E d \in 1..10 : DigitTokens[d] = t
DigitOf(t) == (CHOOSE d \in 1..10 : DigitTokens[d] = t) - 1

\* the pieces a URL of the model is written with: the base URL, the
\* resource segment, a slash, digits, a minus sign and a letter
UrlTokens == {REST_BASE_URL, "/location/", "/", "0", "7", "-", "x"}

RECURSIVE SeqsUpTo(_, _)
SeqsUpTo(S, n) ==
    IF n = 0 THEN {<<>>}
    ELSE LET shorter == SeqsUpTo(S, n - 1)
         IN  shorter \cup {Append(s, t) : s \in shorter, t \in S}

Urls == SeqsUpTo(UrlTokens, MaxUrlLen)

\* the argument of an ID extraction: None or a string
UrlInputs == {PyNone} \cup {Py(u) : u \in Urls}

AllDigits(s) == Len(s) >= 1 /\ \A i \in 1..Len(s) : IsDigit(s[i])

RECURSIVE DecimalValue(_)
DecimalValue(s) ==
    IF s = <<>> THEN 0
    ELSE DecimalValue(SubSeq(s, 1, Len(s) - 1)) * 10 + DigitOf(s[Len(s)])

\* int(s): an optional sign and decimal digits, else ValueError
PyInt(s) ==
    IF AllDigits(s) THEN Returned(DecimalValue(s))
    ELSE IF Len(s) >= 2 /\ s[1] = "-" /\ AllDigits(Tail(s))
    THEN Returned(0 - DecimalValue(Tail(s)))
    ELSE Raised("ValueError")

\* str(n) of an integer, as in an f-string
RECURSIVE PyStr(_)
PyStr(n) ==
    IF n < 0 THEN <<"-">> \o PyStr(0 - n)
    ELSE IF n < 10 THEN <<DigitTokens[n + 1]>>
    ELSE Append(PyStr(n \div 10), DigitTokens[(n % 10) + 1])

\* `marker in url`
Contains(url, marker) == \E i \in 1..Len(url) : url[i] = marker

\* url.split(marker)[-1]: the text after the last occurrence of the marker
AfterLast(url, marker) ==
    LET i == CHOOSE j \in 1..Len(url) :
                 /\ url[j] = marker
                 /\ \A m \in (j + 1)..Len(url) : url[m] # marker
    IN  SubSeq(url, i + 1, Len(url))

\* the truth value of a string or None
StrTruthy(x) == x.k = "val" /\ x.v # <<>>

\* the truth value of a location dict or None: a dict with a key
DictTruthy(x) ==
    x.k = "val" /\ \E key \in DOMAIN x.v : x.v[key].k # "absent"

\* Character.get_location_id on the value of self.location
GetLocationId(location) ==
    IF DictTruthy(location) /\ location.v.url.k # "absent"
    THEN LET url == location.v.url
         IN  IF StrTruthy(url) /\ Contains(url.v, "/location/")
             THEN LET n == PyInt(AfterLast(url.v, "/location/"))
                  IN  IF n.raised = "none" THEN Returned(Py(n.value))
                      ELSE Returned(PyNone)
             ELSE Returned(PyNone)
    ELSE Returned(PyNone)

\* utils.extract_id_from_url(url, resource_type) with the marker
\* f"/{resource_type}/"
ExtractIdFromUrl(url, marker) ==
    IF ~StrTruthy(url) THEN Returned(PyNone)
    ELSE IF Contains(url.v, marker)
    THEN LET n == PyInt(AfterLast(url.v, marker))
         IN  IF n.raised = "none" THEN Returned(Py(n.value))
             ELSE Returned(PyNone)
    ELSE Returned(PyNone)

\* url.rstrip('/'): the slashes at the end of the text are dropped
RECURSIVE RStripSlash(_)
RStripSlash(url) ==
    IF url = <<>> THEN url
    ELSE LET front == SubSeq(url, 1, Len(url) - 1)
             t == url[Len(url)]
         IN  IF t = "/" THEN RStripSlash(front)
             ELSE IF t = "/location/" THEN Append(front, "/location")
             ELSE url

\* url.split('/')[-1]: the text after the last slash
RECURSIVE LastSegment(_)
LastSegment(url) ==
    IF url = <<>> THEN <<>>
    ELSE LET front == SubSeq(url, 1, Len(url) - 1)
             t == url[Len(url)]
         IN  IF t \in {"/", "/location/"} THEN <<>>
             ELSE IF t = "/location" THEN <<"location">>
             ELSE IF t = REST_BASE_URL THEN <<"api">>
             ELSE Append(LastSegment(front), t)

\* RickAndMortyClient.extract_location_id of main.py
ExtractLocationId(url) ==
    IF ~StrTruthy(url) THEN Returned(PyNone)
    ELSE LET n == PyInt(LastSegment(RStripSlash(url.v)))
         IN  IF n.raised = "none" THEN Returned(Py(n.value))
             ELSE Returned(PyNone)

\* a location dict with the given entries
LocationDict(name, url, id) == Py([name |-> name, url |-> url, id |-> id])

\* the ID extraction the implementation at hand uses on a reference URL:
\* main.py its own method, the utilities extract_id_from_url, and the
\* clients the method of the Character that holds the URL
ExtractIdOf(url) ==
    IF impl = "main" THEN ExtractLocationId(url)
    ELSE IF impl = "util" THEN ExtractIdFromUrl(url, "/location/")
    ELSE GetLocationId(LocationDict(Py("Earth"), url, Missing))

\* no function of the data layer was applied yet
NoData == fn = "none" /\ arg = PyNone /\ out = PyNone

\* function f is applied to a and gives o
Applied(f, a, o) ==
    /\ fn' = f
    /\ arg' = a
    /\ out' = o
    /\ UNCHANGED <<impl, jsonErrIsRequestException, phase, op, resource, sizes,
                   page, requested, acc, attempt, calls, last, seen, sleepFor,
                   stage, result, err, closeCalls, cmd>>
    /\ UNCHANGED ultraVars

\* an ID is extracted from a reference URL
ExtractId ==
    /\ fn = "none"
    /\ \E url \in UrlInputs : Applied("extract_id", url, ExtractIdOf(url))

\* the caller drops the value
Forget ==
    /\ fn # "none"
    /\ fn' = "none"
    /\ arg' = PyNone
    /\ out' = PyNone
    /\ UNCHANGED <<impl, jsonErrIsRequestException, phase, op, resource, sizes,
                   page, requested, acc, attempt, calls, last, seen, sleepFor,
                   stage, result, err, closeCalls, cmd>>
    /\ UNCHANGED ultraVars

(* Raw records and their parsers *)

MaxId == 11

\* the dict {} of an origin or location sub-object: no key is present
NoKeys == [name |-> Missing, url |-> Missing, id |-> Missing]

LocationIds == 1..MaxId

\* the reference URL the REST upstream writes for location n
ReferenceUrl(n) == <<REST_BASE_URL, "/location/">> \o PyStr(n)

EpisodeUrl(n) == <<REST_BASE_URL, "/episode/">> \o PyStr(n)

\* the `location` entry of a raw character record: over REST a name and a
\* url, over GraphQL the nested object with a name and an id
RawLocationRefs ==
    {Missing, PyNone} \cup
    (IF impl \in RestImpls
     THEN {LocationDict(nm, u, Missing) :
              nm \in {Missing, Py("Citadel of Ricks")},
              u \in {Missing, PyNone, Py(<<>>)}
                       \cup {Py(ReferenceUrl(n)) : n \in LocationIds}}
     ELSE {LocationDict(nm, Missing, i) :
              nm \in {Missing, Py("Citadel of Ricks")},
              i \in {Missing, PyNone} \cup {Py(n) : n \in LocationIds}})

RawOrigins ==
    {Missing, PyNone, Py(NoKeys), LocationDict(Py("Earth"), Py(<<>>), Missing)}

RawEpisodes ==
    {Missing, PyNone,
     IF impl \in RestImpls THEN Py(<<EpisodeUrl(1)>>) ELSE Py(<<1>>)}

\* the raw character records of the model: name, status and species are
\* the fields the GraphQL parser indexes directly, the others are optional
RawCharacters ==
    {[id |-> Py(1), name |-> nm, status |-> Py("Alive"),
      species |-> Py("Human"), type |-> ty, origin |-> og, location |-> lc,
      episode |-> ep] :
        nm \in {Missing, Py("Rick Sanchez")},
        ty \in {Missing, PyNone, Py("")},
        og \in RawOrigins, lc \in RawLocationRefs, ep \in RawEpisodes}

\* Character.from_dict
CharacterFromDict(data) ==
    LET origin_data == DictGet(data.origin, Py(NoKeys))
    IN  IF origin_data.k # "val"
        THEN Raised("AttributeError")       \* None.get('name', '')
        ELSE Returned(
               [id |-> DictGet(data.id, Py(0)),
                name |-> DictGet(data.name, Py("")),
                status |-> DictGet(data.status, Py("")),
                species |-> DictGet(data.species, Py("")),
                type |-> DictGet(data.type, Py("")),
                origin |-> [name |-> DictGet(origin_data.v.name, Py("")),
                            url |-> DictGet(origin_data.v.url, Py(<<>>))],
                location |-> DictGet(data.location, Py(NoKeys)),
                episode |-> DictGet(data.episode, Py(<<>>))])

\* a REST reference written with the plural of the resource
LocationUrlPlural(id) == <<REST_BASE_URL, "/locations/">> \o PyStr(id)

\* f"{Config.REST_BASE_URL}/location/{location_data['id']}"
LocationUrlOf(id) == <<REST_BASE_URL, "/location/">> \o PyStr(id)

\* the truth value of location_data.get('id')
IdTruthy(x) == x.k = "val" /\ x.v # 0

\* GraphQLClient._parse_character
ParseCharacter(data) ==
    LET location_data == DictGet(data.location, Py(NoKeys))
        located ==
            IF DictTruthy(location_data) /\ IdTruthy(location_data.v.id)
            THEN Py([location_data.v EXCEPT
                        !.url = Py(LocationUrlOf(location_data.v.id.v))])
            ELSE location_data
        episodes == DictGet(data.episode, Py(<<>>))
    IN  IF episodes.k # "val"
        THEN Raised("TypeError")            \* `for ep in None`
        ELSE IF \E key \in {"id", "name", "status", "species"} :
                    data[key].k = "absent"
        THEN Raised("KeyError")
        ELSE IF data.id.k # "val"
        THEN Raised("TypeError")            \* int(None)
        ELSE CharacterFromDict(
               [id |-> data.id, name |-> data.name, status |-> data.status,
                species |-> data.species, type |-> DictGet(data.type, Py("")),
                origin |-> DictGet(data.origin, Py(NoKeys)),
                location |-> located,
                episode |-> Py([i \in 1..Len(episodes.v) |->
                                   EpisodeUrl(episodes.v[i])])])

\* the parser of the client at hand
ParsedCharacter(data) ==
    IF impl \in RestImpls THEN CharacterFromDict(data) ELSE ParseCharacter(data)

\* a raw character record goes through the parser of the client
ParseRecord ==
    /\ fn = "none"
    /\ impl \in Facades
    /\ \E data \in RawCharacters : Applied("parse", data, ParsedCharacter(data))

CharacterUrl(n) == <<REST_BASE_URL, "/character/">> \o PyStr(n)

\* the raw location records of the model: id, name, type and dimension are
\* the fields the GraphQL parser indexes directly, residents is optional
RawLocations ==
    {[id |-> Py(n), name |-> Py("Citadel of Ricks"), type |-> ty,
      dimension |-> dm, residents |-> rs] :
        n \in {1, 3},
        ty \in {PyNone, Py("Space station")},
        dm \in {PyNone, Py("unknown")},
        rs \in {Missing, PyNone,
                IF impl \in RestImpls THEN Py(<<CharacterUrl(1)>>)
                ELSE Py(<<1>>)}}

\* Location.from_dict
LocationFromDict(data) ==
    Returned([id |-> DictGet(data.id, Py(0)),
              name |-> DictGet(data.name, Py("")),
              type |-> DictGet(data.type, Py("")),
              dimension |-> DictGet(data.dimension, Py("")),
              residents |-> DictGet(data.residents, Py(<<>>))])

\* GraphQLClient._parse_location
ParseLocation(data) ==
    LET residents == DictGet(data.residents, Py(<<>>))
    IN  IF residents.k # "val"
        THEN Raised("TypeError")            \* `for res in None`
        ELSE IF \E key \in {"id", "name", "type", "dimension"} :
                    data[key].k = "absent"
        THEN Raised("KeyError")
        ELSE IF data.id.k # "val"
        THEN Raised("TypeError")            \* int(None)
        ELSE LocationFromDict(
               [id |-> data.id, name |-> data.name, type |-> data.type,
                dimension |-> data.dimension,
                residents |-> Py([i \in 1..Len(residents.v) |->
                                     CharacterUrl(residents.v[i])])])

ParsedLocation(data) ==
    IF impl \in RestImpls THEN LocationFromDict(data) ELSE ParseLocation(data)

\* a raw location record goes through the parser of the client
ParseLocationRecord ==
    /\ fn = "none"
    /\ impl \in Facades
    /\ \E data \in RawLocations :
          Applied("parse_location", data, ParsedLocation(data))

(* Reads of a parsed record *)

\* the truth value of a string attribute
NameTruthy(x) == x.k = "val" /\ x.v # ""

\* `str(location_id) if location_id else ''`
LocationIdCell(location) ==
    LET location_id == GetLocationId(location).value
    IN  IF location_id.k = "val" /\ location_id.v # 0
        THEN Py(PyStr(location_id.v))
        ELSE Py(<<>>)

\* `self.location.get('name', '') if self.location else ''`
LocationNameCell(location) ==
    IF DictTruthy(location) THEN DictGet(location.v.name, Py("")) ELSE Py("")

\* Character.to_csv_row(): no location details are given
CharacterToCsvRow(c) ==
    Returned(<<Py(PyStr(c.id.v)), c.name, c.status, c.species, c.origin.name,
               LocationIdCell(c.location), LocationNameCell(c.location),
               Py(""), Py("")>>)

\* Location.to_csv_row(): no character names are given
LocationToCsvRow(l) ==
    IF l.residents.k # "val"
    THEN Raised("TypeError")                \* len(None)
    ELSE Returned(<<Py(PyStr(l.id.v)), l.name, l.type, l.dimension,
                    Py(PyStr(Len(l.residents.v))), Py("")>>)

\* Character.to_dict
CharacterToDict(c) ==
    IF c.location.k # "val"
    THEN Raised("AttributeError")           \* None.get('name', '')
    ELSE IF c.episode.k # "val"
    THEN Raised("TypeError")                \* len(None)
    ELSE Returned([id |-> c.id, name |-> c.name, status |-> c.status,
                   species |-> c.species, origin_name |-> c.origin.name,
                   location_id |-> GetLocationId(c.location).value,
                   location_name |-> DictGet(c.location.v.name, Py("")),
                   episode_count |-> Len(c.episode.v)])

\* the `if char.location and char.location.get('name')` of the mapping
\* analysis
HasNamedLocation(c) ==
    DictTruthy(c.location) /\ NameTruthy(c.location.v.name)

\* `if location_id and location_id in location_map`
HasValidLocation(c, ids) ==
    /\ HasNamedLocation(c)
    /\ LET location_id == GetLocationId(c.location).value
       IN  location_id.k = "val" /\ location_id.v # 0 /\ location_id.v \in ids

\* DataProcessor._analyze_character_location_mapping
AnalyzeMapping(characters, locations) ==
    LET location_map == {locations[i].id.v : i \in 1..Len(locations)}
        characters_with_valid_location ==
            Cardinality({i \in 1..Len(characters) :
                            HasValidLocation(characters[i], location_map)})
    IN  [total_characters |-> Len(characters),
         characters_with_location |->
             Cardinality({i \in 1..Len(characters) :
                             HasNamedLocation(characters[i])}),
         characters_with_valid_location_mapping |->
             characters_with_valid_location,
         mapping_success_rate |->
             IF characters # <<>>
             THEN Ratio(characters_with_valid_location * 100, Len(characters))
             ELSE Ratio(0, 1)]

\* DataProcessor.get_statistics: the analyses that read a sub-object or a
\* list of a record, in the order they run
GetStatistics(characters, locations) ==
    IF \E i \in 1..Len(locations) : locations[i].residents.k # "val"
    THEN Raised("TypeError")                \* len(loc.residents)
    ELSE IF \E i \in 1..Len(characters) : characters[i].location.k # "val"
    THEN Raised("AttributeError")           \* c.location.get('name')
    ELSE Returned([total_characters |-> Len(characters),
                   total_locations |-> Len(locations),
                   character_location_mapping |->
                       AnalyzeMapping(characters, locations)])

CharacterReads == {"get_location_id", "to_dict", "to_csv_row", "get_statistics"}

LocationReads == {"location_to_csv_row", "location_statistics"}

\* what the read r of the parsed record x gives
ReadOf(r, x) ==
    IF r = "get_location_id" THEN GetLocationId(x.location)
    ELSE IF r = "to_dict" THEN CharacterToDict(x)
    ELSE IF r = "to_csv_row" THEN CharacterToCsvRow(x)
    ELSE IF r = "get_statistics" THEN GetStatistics(<<x>>, <<>>)
    ELSE IF r = "location_to_csv_row" THEN LocationToCsvRow(x)
    ELSE GetStatistics(<<>>, <<x>>)

\* the record the parser returned is read
ReadRecord ==
    /\ fn \in {"parse", "parse_location"}
    /\ out.raised = "none"
    /\ \E r \in IF fn = "parse" THEN CharacterReads ELSE LocationReads :
          /\ fn' = r
          /\ arg' = out.value
          /\ out' = ReadOf(r, out.value)
    /\ UNCHANGED <<impl, jsonErrIsRequestException, phase, op, resource, sizes,
                   page, requested, acc, attempt, calls, last, seen, sleepFor,
                   stage, result, err, closeCalls, cmd>>
    /\ UNCHANGED ultraVars

(* Statistics and CSV export of a dataset *)

MaxCharacters == 2

\* the location entries of the characters of a dataset: the reference of
\* location 3, of location 1, a reference without a name, the unknown
\* location of the upstream, and no entry
DatasetLocationRefs ==
    {LocationDict(Py("Citadel of Ricks"), Py(ReferenceUrl(3)), Missing),
     LocationDict(Py("Earth (C-137)"), Py(ReferenceUrl(1)), Missing),
     LocationDict(Missing, Py(ReferenceUrl(3)), Missing),
     LocationDict(Py("unknown"), Py(<<>>), Missing),
     Missing}

DatasetCharacters ==
    {CharacterFromDict(
         [id |-> Py(1), name |-> Py("Rick Sanchez"), status |-> Py("Alive"),
          species |-> Py("Human"), type |-> Py(""),
          origin |-> LocationDict(Py("Earth (C-137)"), Py(<<>>), Missing),
          location |-> lc, episode |-> Py(<<>>)]).value :
        lc \in DatasetLocationRefs}

DatasetLocation(n) ==
    LocationFromDict(
        [id |-> Py(n), name |-> Py("Citadel of Ricks"),
         type |-> Py("Space station"), dimension |-> Py("unknown"),
         residents |-> Py(<<>>)]).value

CharacterLists == SeqsUpTo(DatasetCharacters, MaxCharacters)

LocationLists ==
    {<<>>, <<DatasetLocation(1)>>, <<DatasetLocation(3)>>,
     <<DatasetLocation(1), DatasetLocation(3)>>}

\* get_statistics is called on a dataset
ComputeStatistics ==
    /\ fn = "none"
    /\ impl \in Facades
    /\ \E cs \in CharacterLists, ls \in LocationLists :
          Applied("statistics", [characters |-> cs, locations |-> ls],
                  GetStatistics(cs, ls))

\* Config.CHARACTER_CSV_HEADERS, Config.LOCATION_CSV_HEADERS
CHARACTER_CSV_HEADERS ==
    <<"id", "name", "status", "species", "origin_name", "location_id",
      "location_name", "location_type", "location_dimension">>
LOCATION_CSV_HEADERS ==
    <<"id", "name", "type", "dimension", "resident_count", "character_names">>

\* the file CSVExporter.write_characters / write_locations writes: the
\* header row and one row for each record
WrittenCharacters(cs) ==
    [header |-> CHARACTER_CSV_HEADERS,
     rows |-> [i \in 1..Len(cs) |-> CharacterToCsvRow(cs[i]).value]]
WrittenLocations(ls) ==
    [header |-> LOCATION_CSV_HEADERS,
     rows |-> [i \in 1..Len(ls) |-> LocationToCsvRow(ls[i]).value]]

WriteCharacters ==
    /\ fn = "none"
    /\ impl \in Facades
    /\ \E cs \in CharacterLists :
          Applied("write_characters", cs, Returned(WrittenCharacters(cs)))

WriteLocations ==
    /\ fn = "none"
    /\ impl \in Facades
    /\ \E ls \in LocationLists :
          Applied("write_locations", ls, Returned(WrittenLocations(ls)))

\* only main.py catches by the exception hierarchy of requests: for the
\* other clients one value of the flag stands for both
Init ==
    /\ impl \in Impls
    /\ jsonErrIsRequestException \in (IF impl = "main" THEN BOOLEAN ELSE {TRUE})
    /\ Ready
    /\ closeCalls = 0
    /\ cmd = "none"
    /\ NoData

Next ==
    \/ StartFetchAll
    \/ StartCharLoc
    \/ StartCall
    \/ StartUltra
    \/ UltraSkip
    \/ CallReturns
    \/ CallRetries
    \/ Wake
    \/ CallFails
    \/ Handled
    \/ Close
    \/ StartCommand
    \/ CommandFetched
    \/ CommandFetchFailed
    \/ CommandExports

Spec == Init /\ [][Next]_vars

\* every blocking step (a network call, a sleep) eventually ends
FairSpec == Spec /\ WF_vars(CallReturns \/ CallRetries \/ Wake \/ CallFails)

(* The data layer on its own: the functions are applied to inputs drawn    *)
(* from bounded sets, on a client that runs no operation.                  *)

DataNext ==
    \/ ExtractId
    \/ ParseRecord
    \/ ParseLocationRecord
    \/ ReadRecord
    \/ ComputeStatistics
    \/ WriteCharacters
    \/ WriteLocations
    \/ Forget

DataSpec == Init /\ [][DataNext]_vars

----------------------------------------------------------------------------
(* Properties *)

Terminal == {"returned", "raised", "exited"}
Running == phase \in {"attempt", "sleeping"}

\* every record of pages 1..Len(s), in page order and upstream order
AllRecords(s) == [i \in 1..SumTo(s, Len(s)) |-> [id |-> i]]

Iota(n) == [i \in 1..n |-> i]

C3_FetchAllTerminates ==
    /\ (op = "fetch_all" /\ Running) ~> (op = "fetch_all" /\ phase \in Terminal)
    /\ [][(op = "fetch_all" /\ op' = "fetch_all" /\ page' = page + 1)
              => page < Len(sizes)]_vars

C3_Witness ==
    /\ op = "fetch_all" /\ phase = "returned"
    /\ Len(sizes) >= 3
    /\ impl = "main"
    /\ attempt = GetMaxRetries

\* the request paths that carry a retry policy
RetryPaths == {"main"} \cup RestImpls

Surfaced == phase \in {"raised", "exited"}

\* C4: when the request for a page k in 1..pages fails for good, the
\* fetch-all raises an APIError that names the resource and page k, and
\* returns no records.
C4_FailedPageRaisesNamedError ==
    (/\ op = "fetch_all" /\ impl \in BaseImpls
     /\ Surfaced /\ last.kind # "ok" /\ page \in 1..Len(sizes))
        => /\ err.type = "APIError"
           /\ err.resource = resource
           /\ err.page = page
           /\ result = None

\* C5: the retry policy makes at most 4 network calls for one request, makes
\* exactly 4 before it surfaces the error of an operation that kept failing
\* with retryable errors, and makes none after a call succeeded.
C5_FourAttempts ==
    (op # "none" /\ impl \in {"main", "util"})
        => /\ calls <= MAX_RETRIES + 1
           /\ calls <= attempt + 1
           /\ (Surfaced /\ seen \in {"s429", "retryable"}
                  => calls = MAX_RETRIES + 1)

\* C6: a call that fails with a non-transient error (a 4xx other than 429, a
\* malformed payload) ends the request at once: no sleep, no further attempt.
C6_NonTransientFailsAtOnce ==
    (impl \in RetryPaths /\ last.kind \in {"s404", "malformed"})
        => /\ phase # "sleeping"
           /\ calls = 1

\* C7: a timeout or connection error on attempt a below the retry bound puts
\* the caller to sleep for base^a seconds (the sleep over, Wake makes the
\* next attempt).
C7_TransientSleepsThenRetries ==
    (impl \in RetryPaths /\ last.kind \in {"timeout", "conn"}
     /\ attempt < MAX_RETRIES)
        => /\ phase = "sleeping"
           /\ sleepFor = Pow(RETRY_BACKOFF, attempt)

\* C8: a 429 below the retry bound makes the policy wait at least the
\* retry-after delay the response carries, or base^attempt seconds when it
\* carries none, before the next attempt.
C8_RateLimitWaits ==
    (impl \in RetryPaths /\ last.kind = "s429" /\ attempt < MAX_RETRIES)
        => /\ phase = "sleeping"
           /\ IF last.ra # None
              THEN sleepFor >= last.ra[1]
              ELSE sleepFor = Pow(RETRY_BACKOFF, attempt)

\* C9: when every attempt of a request received a 429 and the policy gives
\* up, the caller gets an APIError whose status_code is 429.
C9_Exhausted429IsAPIError429 ==
    (impl \in RetryPaths /\ op = "call" /\ Surfaced /\ seen = "s429")
        => /\ err.type = "APIError"
           /\ err.status = Some(429)

AbsentCharacter == IF impl \in RestImpls THEN "s404" ELSE "null"

\* C11: fetch_character_with_location for a character the upstream has no
\* record of raises an APIError with status_code 404 and returns nothing,
\* unlike an absent location, which is returned as location None (C10).
C11_AbsentCharacterRaises404 ==
    (/\ op = "char_loc" /\ impl \in Facades /\ stage = "char"
     /\ phase \in Terminal /\ last.kind = AbsentCharacter)
        => /\ phase = "raised"
           /\ err.type = "APIError"
           /\ err.status = Some(404)
           /\ result = None

C11_Witness ==
    /\ op = "char_loc" /\ impl = "gql_v2" /\ stage = "char"
    /\ last.kind = "null"
    /\ phase = "raised"
    /\ err.status = Some(404)

----------------------------------------------------------------------------
(* Properties of fetch_all_data_ultra_optimized *)

UltraReturned == op = "ultra" /\ phase = "returned"

\* the upstream holds at least one page of each resource
NonEmptyDataset == char_pages >= 1 /\ loc_pages >= 1

Max(a, b) == IF a >= b THEN a ELSE b

\* C12: when no request fails, the api_calls reported for page counts
\* Pc >= 1 and Pl >= 1 is max(Pc, Pl), also when Pl > Pc.
C12_ApiCallsIsMaxOfPageCounts ==
    (UltraReturned /\ failed = 0 /\ NonEmptyDataset)
        => result[1].api_calls = Max(char_pages, loc_pages)

\* C13: pass i of the loop asks for character page i+2 if i+2 <= Pc and for
\* location page i+2 if i+2 <= Pl: by a combined request (or its fallback
\* requests) when both exist, by a characters-only or a locations-only
\* request when one exists; the loop makes no pass for which neither exists
\* and returns at the first such i.
C13_SharedIndexRequests ==
    /\ (/\ op = "ultra" /\ stage # "first" /\ phase \in {"attempt", "loop"}
        /\ NonEmptyDataset)
          => /\ idx + 2 <= char_pages \/ idx + 2 <= loc_pages
             /\ (idx + 2 <= char_pages /\ idx + 2 <= loc_pages)
                   => (phase = "attempt"
                       /\ stage \in {"combined", "fb_char", "fb_loc"})
             /\ (idx + 2 <= char_pages /\ ~(idx + 2 <= loc_pages))
                   => (phase = "attempt" /\ stage = "char_only")
             /\ (~(idx + 2 <= char_pages) /\ idx + 2 <= loc_pages)
                   => (phase = "attempt" /\ stage = "loc_only")
    /\ (UltraReturned /\ NonEmptyDataset)
          => (~(idx + 2 <= char_pages) /\ ~(idx + 2 <= loc_pages))

\* C14: when a characters-only request or a fallback request fails, the
\* fetch raises: it neither goes on nor returns.
C14_UnrecoveredFailureRaises ==
    [][(/\ op = "ultra" /\ phase = "attempt"
        /\ stage \in {"char_only", "fb_char", "fb_loc"}
        /\ failed' = failed + 1)
           => phase' = "raised"]_vars

\* C15: the api_calls of a returned fetch is the number of requests sent to
\* the upstream during the fetch, failed combined requests included.
C15_ApiCallsCountsRequestsSent ==
    (UltraReturned /\ NonEmptyDataset) => result[1].api_calls = sent

\* C16: optimization_percentage = (Pc + Pl - api_calls) * 100 / (Pc + Pl)
\* for the page counts Pc, Pl detected by the first query.
C16_PercentageAgainstNaiveBaseline ==
    (UltraReturned /\ NonEmptyDataset)
        => RatioEq(result[1].optimization_percentage,
                   Ratio((char_pages + loc_pages - result[1].api_calls) * 100,
                         char_pages + loc_pages))

\* C17: when no request fails and Pc > 1 and Pl > 1, the reported api_calls
\* is strictly less than Pc + Pl.
C17_FewerCallsThanNaive ==
    (UltraReturned /\ failed = 0 /\ char_pages > 1 /\ loc_pages > 1)
        => result[1].api_calls < char_pages + loc_pages

C17_Witness ==
    /\ UltraReturned /\ failed = 0
    /\ char_pages = 3 /\ loc_pages = 2
    /\ result[1].api_calls = 3
    /\ sent = 3

\* C18: on the full dataset (Pc = 42, Pl = 7) without failure the fetch
\* makes about 15% of the 49 calls of standard pagination and reports an
\* optimization_percentage of about 85 (within 5 points).
C18_FullDatasetReductionAbout85 ==
    (/\ UltraReturned /\ failed = 0
     /\ char_pages = DefaultCharPages /\ loc_pages = DefaultLocPages)
        => /\ 10 * OriginalCalls <= result[1].api_calls * 100
           /\ result[1].api_calls * 100 <= 20 * OriginalCalls
           /\ 80 * result[1].optimization_percentage.den
                 <= result[1].optimization_percentage.num
           /\ result[1].optimization_percentage.num
                 <= 90 * result[1].optimization_percentage.den

----------------------------------------------------------------------------
(* Properties of close() and of the commands *)

\* C19: on a client on which close() has been called, fetch_all_characters,
\* fetch_all_locations and fetch_character_with_location send no request
\* and do not return.
C19_ClosedClientFailsFast ==
    (cmd = "none" /\ closeCalls > 0 /\ op \in {"fetch_all", "char_loc"})
        => /\ calls = 0
           /\ phase # "returned"

CommandOver == cmd \in {"exit0", "exit1"}

\* C20: a command that has left, on whatever path, has called close() on
\* its client exactly once, and while it is still fetching or exporting it
\* has not closed the client.
C20_CommandClosesExactlyOnce ==
    /\ CommandOver => closeCalls = 1
    /\ cmd \in {"fetch", "export"} => closeCalls = 0

----------------------------------------------------------------------------
(* Properties of the data layer *)

Extracted == fn = "extract_id"

\* the reference URL of location n >= 1, n written without leading zeros
WellFormedUrl(u) ==
    /\ u.k = "val"
    /\ Len(u.v) >= 3
    /\ u.v[1] = REST_BASE_URL
    /\ u.v[2] = "/location/"
    /\ AllDigits(SubSeq(u.v, 3, Len(u.v)))
    /\ u.v[3] # "0"

\* C21: ID extraction from a reference URL returns the integer of the
\* trailing segment of a well-formed URL and None for an absent URL or one
\* that ends in no number; it never raises and never returns 0 or less.
C21_ExtractedIdIsPositiveOrNone ==
    Extracted =>
        /\ out.raised = "none"
        /\ out.value.k = "val" => out.value.v > 0
        /\ WellFormedUrl(arg) =>
               /\ out.value.k = "val"
               /\ out.value.v = DecimalValue(SubSeq(arg.v, 3, Len(arg.v)))
        /\ (~StrTruthy(arg) \/ arg.v[Len(arg.v)] = "x") => out.value = PyNone

\* the location entry of a parsed character encodes n: over REST its url is
\* the reference URL of n, over GraphQL the nested object had the id n
Encodes(location, n) ==
    /\ location.k = "val"
    /\ IF impl \in RestImpls
       THEN location.v.url.k = "val" /\ location.v.url.v = ReferenceUrl(n)
       ELSE location.v.id.k = "val" /\ location.v.id.v = n

\* C22: for a raw character record whose location reference encodes a
\* positive integer n (the url ".../location/n" over REST, the nested
\* location {id: n, name} over GraphQL), get_location_id() of the parsed
\* Character returns n, with either transport.
C22_LocationIdRoundTrip ==
    \A n \in LocationIds :
        (fn = "get_location_id" /\ Encodes(arg.location, n))
            => /\ out.raised = "none"
               /\ out.value.k = "val"
               /\ out.value.v = n

C22_Witness ==
    /\ fn = "get_location_id"
    /\ impl = "gql_v2"
    /\ Encodes(arg.location, MaxId)
    /\ out.value.k = "val"
    /\ out.value.v = MaxId

\* the raw record holds every field its parser indexes directly
RequiredPresent ==
    impl \in RestImpls \/ \A key \in {"id", "name", "status", "species"} :
                               arg[key].k # "absent"

\* C23: parsing a raw character or location record in which optional
\* fields are missing or null (an absent or null origin or location
\* sub-object, or one without a URL, included) never raises; a missing
\* string becomes "", a missing list becomes the empty list, and the reads
\* of the parsed record (get_location_id, to_dict, to_csv_row, statistics)
\* do not raise.
C23_MissingOptionalFieldsTolerated ==
    /\ (fn = "parse" /\ RequiredPresent) =>
           /\ out.raised = "none"
           /\ arg.type.k = "absent" =>
                  (out.value.type.k = "val" /\ out.value.type.v = "")
           /\ arg.episode.k = "absent" =>
                  (out.value.episode.k = "val" /\ out.value.episode.v = <<>>)
    /\ fn = "parse_location" =>
           /\ out.raised = "none"
           /\ arg.residents.k = "absent" =>
                  (out.value.residents.k = "val"
                   /\ out.value.residents.v = <<>>)
    /\ fn \in CharacterReads \cup LocationReads => out.raised = "none"

\* the resolved location ID of c is the id of one of the locations
ResolvesInto(c, locations) ==
    LET location_id == GetLocationId(c.location).value
    IN  /\ location_id.k = "val"
        /\ \E i \in 1..Len(locations) : locations[i].id.v = location_id.v

\* C24: get_statistics reports mapping_success_rate = 100 * (number of
\* characters whose resolved location ID is the id of a given Location) /
\* (number of characters), and 0 without raising for no characters.
C24_MappingSuccessRate ==
    fn = "statistics" =>
        /\ out.raised = "none"
        /\ LET cs == arg.characters
               resolved == Cardinality({i \in 1..Len(cs) :
                                           ResolvesInto(cs[i], arg.locations)})
               rate == out.value.character_location_mapping.mapping_success_rate
           IN  IF cs = <<>> THEN RatioEq(rate, Ratio(0, 1))
               ELSE RatioEq(rate, Ratio(100 * resolved, Len(cs)))

\* C25: the basic CSV projection has six columns for a character (id,
\* name, status, species, origin name, location id) and four for a location
\* (id, name, type, dimension), in the rows to_csv_row() returns and in the
\* header rows write_characters / write_locations write.
C25_BasicCsvColumns ==
    /\ fn = "to_csv_row" =>
           out.value = <<Py(PyStr(arg.id.v)), arg.name, arg.status,
                         arg.species, arg.origin.name,
                         LocationIdCell(arg.location)>>
    /\ (fn = "location_to_csv_row" /\ out.raised = "none") =>
           out.value = <<Py(PyStr(arg.id.v)), arg.name, arg.type,
                         arg.dimension>>
    /\ fn = "write_characters" =>
           /\ out.value.header = <<"id", "name", "status", "species",
                                   "origin_name", "location_id">>
           /\ \A i \in 1..Len(out.value.rows) : Len(out.value.rows[i]) = 6
    /\ fn = "write_locations" =>
           /\ out.value.header = <<"id", "name", "type", "dimension">>
           /\ \A i \in 1..Len(out.value.rows) : Len(out.value.rows[i]) = 4

----------------------------------------------------------------------------
(* Further properties of the fetches *)

\* C26: when no request fails, the combined-page fetch returns the full
\* dataset: the characters of pages 1..Pc and the locations of pages 1..Pl,
\* as fetch_all_characters and fetch_all_locations do, for all Pc, Pl >= 1,
\* Pl > Pc included.
C26_UltraReturnsFullDataset ==
    (UltraReturned /\ failed = 0 /\ NonEmptyDataset)
        => /\ result[1].characters = char_pages
           /\ result[1].locations = loc_pages

\* C27: when the combined request of a pass fails at any point of its
\* handling, the fallback requests find the lists without anything of the
\* pass: the records of character page i+2 and of location page i+2 are
\* appended once, by the fallback.
C27_FallbackAppendsOnce ==
    (op = "ultra" /\ phase = "attempt") =>
        /\ stage \in {"combined", "fb_char"} =>
               (all_characters = idx + 1 /\ all_locations = idx + 1)
        /\ stage = "fb_loc" =>
               (all_characters = idx + 2 /\ all_locations = idx + 1)

\* C28: for a resource whose first page is empty and reports 0 pages, a
\* fetch-all returns the empty list after exactly one page request, without
\* raising.
C28_EmptyResourceReturnsEmptyList ==
    (/\ op = "fetch_all" /\ TotalPages(sizes) = 0
     /\ phase \in Terminal /\ last.kind = "ok")
        => /\ phase = "returned"
           /\ result = Some(<<>>)
           /\ requested = <<1>>

\* C29: when a page request of a fetch-all fails with an APIError that
\* carries a status, the APIError that reaches the caller carries the same
\* status.
C29_FetchAllKeepsStatus ==
    [][(op = "fetch_all" /\ phase = "attempt" /\ phase' = "raised")
          => LET e == Policy(last', attempt).err
             IN  (e.type = "APIError" /\ e.status # None)
                     => (err'.type = "APIError" /\ err'.status = e.status)]_vars

\* C30: GraphQLClient.fetch_character_with_location raises an APIError with
\* status 404 only when the upstream returned no character record.
C30_Gql404OnlyForAbsentCharacter ==
    (/\ op = "char_loc" /\ impl \in GqlImpls
     /\ phase = "raised" /\ err.status = Some(404))
        => (stage = "char" /\ last.kind = "null")
====
